---------------------------- MODULE Spec2Model ----------------------------
(***************************************************************************)
(* A model of src/src/naive_tsne.cu: the affinity construction             *)
(* (compute_pij), the perplexity bisection kernels (perplexity_search,     *)
(* upper_lower_assign, thrust_search_perplexity), the gradient             *)
(* (compute_gradients) and the optimisation loop (tsne).                   *)
(*                                                                         *)
(* Numbers.  A float is modelled as an exact rational <<n, d>> in lowest   *)
(* terms with d > 0, extended by the IEEE-754 specials the code can        *)
(* produce: <<0,0>> is NaN, <<1,0>> is +Inf and <<-1,0>> is -Inf.  Rounding *)
(* of finite results is not modelled; division by zero, Inf - Inf, 0 * Inf, *)
(* comparison with NaN and the underflow of exp to 0 are.  Signed zeros    *)
(* are not distinguished (x / 0 takes the sign of x).                      *)
(*                                                                         *)
(* Matrices are flat vectors indexed from 0, as in the device buffers:     *)
(* element (i, j) of an N-row matrix is at index i + j*N.                  *)
(***************************************************************************)
EXTENDS Integers, Sequences, FiniteSets, TLC

VARIABLES
    N,            \* number of points
    NDIMS,        \* input dimensionality
    PROJDIM,      \* output dimensionality
    points,       \* the caller's buffer, N x NDIMS
    points0,      \* history variable: the content of points at entry
    sigmas,       \* bandwidths, one per point
    pij,          \* N x N
    ys,           \* embedding, N x PROJDIM
    yt_1,         \* previous embedding
    momentum,     \* N x PROJDIM
    forces,       \* N x PROJDIM
    qij,          \* N x N scratch
    dist,         \* N x N scratch
    eta,          \* learning rate
    loss,         \* class of the loss: "finite", "pinf", "ninf" or "nan"
    iter,         \* loop counter i of tsne / number of search steps done
    lower_bound,  \* bisection state, one per point
    upper_bound,
    perplexity,
    target,       \* target_perplexity
    oob,          \* set of indices >= N that a kernel thread has accessed
    pc            \* position in the program

vars == <<N, NDIMS, PROJDIM, points, points0, sigmas, pij, ys, yt_1, momentum,
          forces, qij, dist, eta, loss, iter, lower_bound, upper_bound,
          perplexity, target, oob, pc>>

---------------------------------------------------------------------------
(* Float arithmetic                                                        *)

NaN == <<0, 0>>
PosInf == <<1, 0>>
NegInf == <<-1, 0>>
Zero == <<0, 1>>
One == <<1, 1>>

Abs(a) == IF a < 0 THEN -a ELSE a

RECURSIVE Gcd(_, _)
Gcd(a, b) == IF b = 0 THEN a ELSE Gcd(b, a % b)

\* the rational n/d (d # 0) in lowest terms with a positive denominator
Rat(n, d) ==
    LET g == Gcd(Abs(n), Abs(d))
        s == IF d < 0 THEN -1 ELSE 1
    IN  <<(s * n) \div g, (s * d) \div g>>

Int2F(k) == <<k, 1>>

IsNaN(x) == x = NaN
IsInf(x) == x[2] = 0 /\ x[1] # 0
IsFin(x) == x[2] # 0
Sgn(x) == IF x[1] > 0 THEN 1 ELSE IF x[1] < 0 THEN -1 ELSE 0
InfOf(s) == IF s > 0 THEN PosInf ELSE NegInf

FNeg(x) == <<-x[1], x[2]>>

\* x + y
FAdd(x, y) ==
    IF IsNaN(x) \/ IsNaN(y) THEN NaN
    ELSE IF IsInf(x) /\ IsInf(y) THEN (IF x = y THEN x ELSE NaN)
    ELSE IF IsInf(x) THEN x
    ELSE IF IsInf(y) THEN y
    ELSE LET g == Gcd(x[2], y[2])
         IN  Rat(x[1] * (y[2] \div g) + y[1] * (x[2] \div g),
                 (x[2] \div g) * y[2])

\* x - y
FSub(x, y) == FAdd(x, FNeg(y))

\* x * y
FMul(x, y) ==
    IF IsNaN(x) \/ IsNaN(y) THEN NaN
    ELSE IF IsInf(x) \/ IsInf(y)
         THEN (IF Sgn(x) * Sgn(y) = 0 THEN NaN ELSE InfOf(Sgn(x) * Sgn(y)))
    ELSE LET g1 == Gcd(Abs(x[1]), y[2])
             g2 == Gcd(Abs(y[1]), x[2])
         IN  <<(x[1] \div g1) * (y[1] \div g2), (x[2] \div g2) * (y[2] \div g1)>>

\* x / y
FDiv(x, y) ==
    IF IsNaN(x) \/ IsNaN(y) THEN NaN
    ELSE IF IsInf(y) THEN (IF IsInf(x) THEN NaN ELSE Zero)
    ELSE IF IsInf(x) THEN (IF Sgn(y) < 0 THEN FNeg(x) ELSE x)
    ELSE IF y[1] = 0 THEN (IF x[1] = 0 THEN NaN ELSE InfOf(Sgn(x)))
    ELSE FMul(x, Rat(y[2], y[1]))

\* x < y; false when either is NaN
FLt(x, y) ==
    IF IsNaN(x) \/ IsNaN(y) THEN FALSE
    ELSE IF IsInf(x) \/ IsInf(y)
         THEN (IF IsInf(x) /\ IsInf(y) THEN x[1] < y[1]
               ELSE IF IsInf(x) THEN x[1] < 0 ELSE y[1] > 0)
    ELSE x[1] * y[2] < y[1] * x[2]

\* x > y
FGt(x, y) == FLt(y, x)

\* x <= y
FLe(x, y) == ~IsNaN(x) /\ ~IsNaN(y) /\ ~FLt(y, x)

\* x == y; false when either is NaN
FEq(x, y) == ~IsNaN(x) /\ ~IsNaN(y) /\ x = y

\* x != y; true when either is NaN
FNe(x, y) == ~FEq(x, y)

---------------------------------------------------------------------------
(* Vectors and the linear-algebra primitives                               *)

Vec(len, v) == [k \in 0 .. len - 1 |-> v]

RECURSIVE SumUpTo(_, _)
\* f[0] + ... + f[k-1], starting from 0.0f
SumUpTo(f, k) == IF k = 0 THEN Zero ELSE FAdd(SumUpTo(f, k - 1), f[k - 1])

\* thrust::reduce(v.begin(), v.end(), 0.0f, thrust::plus<float>())
Reduce(v) == SumUpTo(v, Cardinality(DOMAIN v))

\* matrix(i, i) <- 0
zero_diagonal(m, n) ==
    [k \in DOMAIN m |-> IF k % n = k \div n THEN Zero ELSE m[k]]

\* out(i, j) = sum over d of (pts(i, d) - pts(j, d))^2
squared_pairwise_dist(pts, n, ndims) ==
    [k \in 0 .. n * n - 1 |->
        LET i == k % n
            j == k \div n
            sq == [d \in 0 .. ndims - 1 |->
                     LET df == FSub(pts[i + d * n], pts[j + d * n])
                     IN  FMul(df, df)]
        IN  SumUpTo(sq, ndims)]

\* C <- alpha * A x B + beta * C, A is m x k, B is k x n, column-major,
\* no transposition; with beta = 0 the old C is not read
cublasSgemm(m, n, k, alpha, A, B, beta, C) ==
    [x \in 0 .. m * n - 1 |->
        LET i == x % m
            j == x \div m
            prod == [l \in 0 .. k - 1 |-> FMul(A[i + l * m], B[l + j * k])]
            ab == FMul(alpha, SumUpTo(prod, k))
        IN  IF beta = Zero THEN ab ELSE FAdd(ab, FMul(beta, C[x]))]

\* C <- alpha * A + beta * transpose(B), all n x n
cublasSgeam(n, alpha, A, beta, B) ==
    [x \in 0 .. n * n - 1 |->
        LET i == x % n
            j == x \div n
        IN  FAdd(FMul(alpha, A[i + j * n]), FMul(beta, B[j + i * n]))]

---------------------------------------------------------------------------
(* compute_gradients                                                       *)

\* 1 / (x + 1)
func_inc_inv(x) == FDiv(One, FAdd(x, One))

\* class of x == 0 ? 0 : x * (log(x) - log(y)): the value itself is not
\* modelled, only whether it is finite, +Inf, -Inf or NaN
func_kl(x, y) ==
    IF FEq(x, Zero) THEN "finite"
    ELSE IF IsNaN(x) \/ IsNaN(y) \/ Sgn(x) < 0 \/ Sgn(y) < 0 THEN "nan"
    ELSE IF IsInf(x) /\ IsInf(y) THEN "nan"
    ELSE IF IsInf(x) \/ Sgn(y) = 0 THEN "pinf"
    ELSE IF IsInf(y) THEN "ninf"
    ELSE "finite"

\* class of the sum of the terms t[k] after zero_diagonal
LossClass(t, n) ==
    LET off == {t[k] : k \in {x \in DOMAIN t : x % n # x \div n}}
    IN  IF "nan" \in off \/ {"pinf", "ninf"} \subseteq off THEN "nan"
        ELSE IF "pinf" \in off THEN "pinf"
        ELSE IF "ninf" \in off THEN "ninf"
        ELSE "finite"

\* dist_ after lines 205-212
GradDist(y, n, p) ==
    LET d == squared_pairwise_dist(y, n, p)
    IN  zero_diagonal([k \in DOMAIN d |-> func_inc_inv(d[k])], n)

\* the normaliser Z (line 218)
GradZ(d) == Reduce(d)

\* qij_ after line 219
GradQ(d) == LET sum == GradZ(d) IN [k \in DOMAIN d |-> FDiv(d[k], sum)]

\* the returned loss (lines 232-237)
GradLoss(P, Q, n) == LossClass([k \in DOMAIN P |-> func_kl(P[k], Q[k])], n)

\* qij_ after lines 240-246
GradC(P, Q, d) == [k \in DOMAIN P |-> FMul(FSub(P[k], Q[k]), d[k])]

\* forces_ after lines 252-269
GradForces(C, y, f, n, p, e) ==
    LET ones == Vec(p * n, One)
        f1 == cublasSgemm(n, p, n, One, C, ones, Zero, f)
        f2 == [k \in DOMAIN f1 |-> FMul(f1[k], y[k])]
        alpha == FMul(Int2F(4), e)
        beta == FMul(Int2F(-4), e)
    IN  cublasSgemm(n, p, n, alpha, C, y, beta, f2)

\* compute_gradients(handle, forces, dist, ys, pij, qij, N, PROJDIM, eta):
\* the buffers it writes and the loss it returns
compute_gradients ==
    /\ dist' = GradDist(ys, N, PROJDIM)
    /\ LET Q == GradQ(dist')
       IN  /\ loss' = GradLoss(pij, Q, N)
           /\ qij' = GradC(pij, Q, dist')
    /\ forces' = GradForces(qij', ys, forces, N, PROJDIM, eta)

---------------------------------------------------------------------------
(* compute_pij                                                             *)

\* exp(x) as a float is exactly 0 for x <= -ExpUnderflow (2^-150 rounds to 0)
ExpUnderflow == 104
\* and +Inf for x >= ExpOverflow (FLT_MAX < e^89)
ExpOverflow == 89

\* exp(x).  NaN, the infinities, exp(0) = 1, underflow and overflow are
\* exact; elsewhere the value is the rational 1 + x + x^2/2 for x > 0 and
\* its reciprocal at -x for x < 0: positive, strictly increasing.
func_exp(x) ==
    IF IsNaN(x) THEN NaN
    ELSE IF x = PosInf THEN PosInf
    ELSE IF x = NegInf THEN Zero
    ELSE IF FLe(x, Int2F(-ExpUnderflow)) THEN Zero
    ELSE IF FLe(Int2F(ExpOverflow), x) THEN PosInf
    ELSE LET t == IF Sgn(x) < 0 THEN FNeg(x) ELSE x
             e == FAdd(One, FAdd(t, FDiv(FMul(t, t), Int2F(2))))
         IN  IF Sgn(x) < 0 THEN FDiv(One, e) ELSE e

\* Math::square
square(v) == [k \in DOMAIN v |-> FMul(v[k], v[k])]

\* Broadcast::broadcast_matrix_vector(m, v, n, n, thrust::divides, 0, alpha):
\* m(i, j) <- m(i, j) / (alpha * v(i))
broadcast_matrix_vector(m, v, n, alpha) ==
    [k \in DOMAIN m |-> FDiv(m[k], FMul(alpha, v[k % n]))]

\* Reduce::reduce_alpha(handle, m, n, n, alpha, 1): out(i) = alpha * sum_j m(i, j)
reduce_alpha(m, n, alpha) ==
    [i \in 0 .. n - 1 |->
        FMul(alpha, SumUpTo([j \in 0 .. n - 1 |-> m[i + j * n]], n))]

\* Reduce::reduce_sum(handle, m, n, n, 1)
reduce_sum(m, n) == reduce_alpha(m, n, One)

\* pij_vals after line 155: the zero-diagonal Gaussian kernel
PijKernel(pts, sig, n, ndims) ==
    LET d == squared_pairwise_dist(pts, n, ndims)
        s == broadcast_matrix_vector(d, square(sig), n, Int2F(-2))
    IN  zero_diagonal([k \in DOMAIN s |-> func_exp(s[k])], n)

\* pij_vals after line 167: each point's kernel values divided by their sum
PijNormalized(pts, sig, n, ndims) ==
    LET k == PijKernel(pts, sig, n, ndims)
    IN  broadcast_matrix_vector(k, reduce_sum(k, n), n, One)

\* pij_output (lines 172-182)
compute_pij(pts, sig, n, ndims) ==
    LET v == PijNormalized(pts, sig, n, ndims)
        half == Rat(1, 2)
    IN  cublasSgeam(n, half, v, half, v)

---------------------------------------------------------------------------
(* The perplexity search                                                   *)

RECURSIVE ILog2(_)
\* floor(log2(m)) for an integer m >= 1
ILog2(m) == IF m < 2 THEN 0 ELSE 1 + ILog2(m \div 2)

RECURSIVE IPow2(_)
IPow2(k) == IF k = 0 THEN 1 ELSE 2 * IPow2(k - 1)

\* log2 of an integer m >= 1: exact at powers of two, linear between them
Log2Int(m) ==
    LET k == ILog2(m) IN FAdd(Int2F(k), Rat(m - IPow2(k), IPow2(k)))

\* log2(x): NaN for x < 0 or NaN, -Inf at 0
log2(x) ==
    IF IsNaN(x) \/ Sgn(x) < 0 THEN NaN
    ELSE IF x = PosInf THEN PosInf
    ELSE IF Sgn(x) = 0 THEN NegInf
    ELSE FSub(Log2Int(x[1]), Log2Int(x[2]))

\* floats reach neither 2^Pow2Overflow nor, above 0, 2^-Pow2Underflow
Pow2Overflow == 128
Pow2Underflow == 150

\* pow(2, x): exact at integers, linear between them
pow2(x) ==
    IF IsNaN(x) THEN NaN
    ELSE IF x = PosInf \/ FLe(Int2F(Pow2Overflow), x) THEN PosInf
    ELSE IF x = NegInf \/ FLe(x, Int2F(-Pow2Underflow)) THEN Zero
    ELSE LET k == x[1] \div x[2]
             f == FSub(x, Int2F(k))
             m == FAdd(One, f)
         IN  IF k >= 0 THEN FMul(Int2F(IPow2(k)), m)
             ELSE FDiv(m, Int2F(IPow2(-k)))

\* x * log2(x), with NaN replaced by 0
func_entropy_kernel(x) ==
    LET val == FMul(x, log2(x)) IN IF FNe(val, val) THEN Zero ELSE val

func_pow2(x) == pow2(x)

BLOCKSIZE == 32
iDivUp(a, b) == (a + b - 1) \div b

\* the thread indices TID of a launch <<<iDivUp(n, BLOCKSIZE), BLOCKSIZE>>>
Threads(n) == 0 .. iDivUp(n, BLOCKSIZE) * BLOCKSIZE - 1

\* the threads that do not return at "if (TID > N) return;"
PastGuard(n) == {t \in Threads(n) : ~(t > n)}

\* upper_lower_assign with the division by 2 of line 76 left out
upper_lower_assign_no_halving(sig, lo, up, perp, tgt, n) ==
    LET T == PastGuard(n) \cap DOMAIN sig
        up1 == [t \in DOMAIN up |->
                  IF t \in T /\ FGt(perp[t], tgt) THEN sig[t] ELSE up[t]]
        lo1 == [t \in DOMAIN lo |->
                  IF t \in T /\ ~FGt(perp[t], tgt) THEN sig[t] ELSE lo[t]]
    IN  [upper_bound |-> up1,
         lower_bound |-> lo1,
         sigmas |-> [t \in DOMAIN sig |->
                       IF t \in T THEN FAdd(up1[t], lo1[t]) ELSE sig[t]],
         oob |-> PastGuard(n) \ DOMAIN sig]

\* One launch of upper_lower_assign.  The buffers hold n floats (indices
\* 0 .. n-1); a thread that is past the guard with an index outside them
\* accesses the words after each buffer, recorded in oob.
upper_lower_assign(sig, lo, up, perp, tgt, n) ==
    LET T == PastGuard(n) \cap DOMAIN sig
        up1 == [t \in DOMAIN up |->
                  IF t \in T /\ FGt(perp[t], tgt) THEN sig[t] ELSE up[t]]
        lo1 == [t \in DOMAIN lo |->
                  IF t \in T /\ ~FGt(perp[t], tgt) THEN sig[t] ELSE lo[t]]
    IN  [upper_bound |-> up1,
         lower_bound |-> lo1,
         sigmas |-> [t \in DOMAIN sig |->
                       IF t \in T THEN FDiv(FAdd(up1[t], lo1[t]), Int2F(2))
                       ELSE sig[t]],
         oob |-> PastGuard(n) \ DOMAIN sig]

\* the value "entropy" of thread t of perplexity_search after its loop
SearchEntropy(P, t, n) ==
    LET term == [i \in 0 .. n - 1 |->
                   IF i # t THEN FMul(P[i + t * n], log2(P[i + t * n]))
                   ELSE Zero]
    IN  SumUpTo(term, n)

\* One launch of perplexity_search
perplexity_search(sig, lo, up, perp, P, tgt, n) ==
    LET T == PastGuard(n) \cap DOMAIN sig
        perp1 == [t \in DOMAIN perp |->
                    IF t \in T THEN pow2(FMul(Int2F(-1), SearchEntropy(P, t, n)))
                    ELSE perp[t]]
        up1 == [t \in DOMAIN up |->
                  IF t \in T /\ FLt(perp1[t], tgt) THEN sig[t] ELSE up[t]]
        lo1 == [t \in DOMAIN lo |->
                  IF t \in T /\ ~FLt(perp1[t], tgt) THEN sig[t] ELSE lo[t]]
    IN  [perplexity |-> perp1,
         upper_bound |-> up1,
         lower_bound |-> lo1,
         sigmas |-> [t \in DOMAIN sig |->
                       IF t \in T THEN FDiv(FAdd(up1[t], lo1[t]), Int2F(2))
                       ELSE sig[t]],
         oob |-> PastGuard(n) \ DOMAIN sig]

\* the perplexity vector written at line 104
ThrustPerplexity(P, n) ==
    LET e == zero_diagonal([k \in DOMAIN P |-> func_entropy_kernel(P[k])], n)
        neg_entropy == reduce_alpha(e, n, Int2F(-1))
    IN  [i \in 0 .. n - 1 |-> func_pow2(neg_entropy[i])]

\* thrust_search_perplexity
thrust_search_perplexity(sig, lo, up, P, tgt, n) ==
    LET perp1 == ThrustPerplexity(P, n)
        r == upper_lower_assign(sig, lo, up, perp1, tgt, n)
    IN  [perplexity |-> perp1, upper_bound |-> r.upper_bound,
         lower_bound |-> r.lower_bound, sigmas |-> r.sigmas, oob |-> r.oob]

---------------------------------------------------------------------------
(* Argument sets                                                           *)

MaxN == 3          \* compute_pij, compute_gradients: N in 1 .. MaxN
MaxNDims == 1      \* NDIMS in 1 .. MaxNDims
MaxProjDim == 2    \* PROJDIM in 1 .. MaxProjDim
MaxNSearch == 2    \* the search kernels: N in 1 .. MaxNSearch
MaxSteps == 2      \* number of calls of the search kernels
MaxIters == 2      \* tsne: passes through the loop before it is left

\* the index pairs (i, j), i < j, of an n x n matrix
Pairs(n) == {pr \in (0 .. n - 1) \X (0 .. n - 1) : pr[1] < pr[2]}

\* the symmetric n x n matrices with a zero diagonal and entries from V
SymMatrices(n, V) ==
    {[k \in 0 .. n * n - 1 |->
        LET i == k % n
            j == k \div n
        IN  IF i = j THEN Zero ELSE IF i < j THEN f[<<i, j>>] ELSE f[<<j, i>>]]
     : f \in [Pairs(n) -> V]}

\* affinities passed to compute_gradients and to the search
PVals == {Zero, Rat(1, 4), Rat(1, 2), One}
\* embedding coordinates passed to compute_gradients
YVals == {Zero, One}
EtaVals == {One, Int2F(2)}
\* input coordinates and bandwidths passed to compute_pij
PointVals == {Zero, One, Int2F(2)}
SigmaVals == {Rat(1, 16), Rat(1, 2), One}
\* the state of the bisection before the first step
SigmaStart == {One, Int2F(2), Int2F(5)}
LowerStart == Zero
UpperStart == Int2F(4)
TargetVals == {Rat(3, 2), Int2F(2)}
\* perplexity vectors passed to upper_lower_assign
PerpVals == {One, Int2F(2), NaN}
\* tsne: the caller's coordinates, and the values the random generators
\* Random::rand_in_range(N, 0.2f, 0.4f) and Random::random_vector return
\* (with three points the exact rationals of the second pass through the
\* loop no longer fit TLC's integers)
TsneSizes == {1, 2}
TsnePointVals == {One, Int2F(2)}
SigmaRange == {Rat(1, 5), Rat(1, 4)}
RandomVals == {Zero, One}

Unused == <<>>

---------------------------------------------------------------------------
(* A caller of compute_gradients                                           *)

InitGrad ==
    /\ N \in 1 .. MaxN
    /\ PROJDIM \in 1 .. MaxProjDim
    /\ NDIMS = 0
    /\ ys \in [0 .. N * PROJDIM - 1 -> YVals]
    /\ pij \in SymMatrices(N, {Zero, Rat(1, 2), One})
    /\ eta \in EtaVals
    /\ forces = Vec(N * PROJDIM, Zero)
    /\ qij = Vec(N * N, Zero)
    /\ dist = Vec(N * N, Zero)
    /\ loss = "finite"
    /\ points = Unused /\ points0 = Unused /\ sigmas = Unused
    /\ yt_1 = Unused /\ momentum = Unused
    /\ lower_bound = Unused /\ upper_bound = Unused /\ perplexity = Unused
    /\ target = Zero /\ oob = {} /\ iter = 0
    /\ pc = "call"

\* a call of compute_gradients
CallComputeGradients ==
    /\ pc = "call"
    /\ compute_gradients
    /\ pc' = "ret"
    /\ UNCHANGED <<N, NDIMS, PROJDIM, points, points0, sigmas, pij, ys, yt_1,
                   momentum, eta, iter, lower_bound, upper_bound, perplexity,
                   target, oob>>

NextGrad == CallComputeGradients

SpecGrad == InitGrad /\ [][NextGrad]_vars

---------------------------------------------------------------------------
(* A caller of compute_pij, then of compute_gradients on its result        *)

InitPij ==
    /\ N \in 1 .. MaxN
    /\ NDIMS \in 1 .. MaxNDims
    /\ PROJDIM = 1
    /\ points \in [0 .. N * NDIMS - 1 -> PointVals]
    /\ points0 = points
    /\ sigmas \in [0 .. N - 1 -> SigmaVals]
    /\ ys \in [0 .. N * PROJDIM - 1 -> {Zero, One}]
    /\ pij = Unused
    /\ eta = One
    /\ forces = Vec(N * PROJDIM, Zero)
    /\ qij = Vec(N * N, Zero)
    /\ dist = Vec(N * N, Zero)
    /\ loss = "finite"
    /\ yt_1 = Unused /\ momentum = Unused
    /\ lower_bound = Unused /\ upper_bound = Unused /\ perplexity = Unused
    /\ target = Zero /\ oob = {} /\ iter = 0
    /\ pc = "call_pij"

\* pij = compute_pij(handle, points, sigmas, N, NDIMS)
CallComputePij ==
    /\ pc = "call_pij"
    /\ pij' = compute_pij(points, sigmas, N, NDIMS)
    /\ pc' = "call"
    /\ UNCHANGED <<N, NDIMS, PROJDIM, points, points0, sigmas, ys, yt_1,
                   momentum, forces, qij, dist, eta, loss, iter, lower_bound,
                   upper_bound, perplexity, target, oob>>

NextPij == CallComputePij \/ CallComputeGradients

SpecPij == InitPij /\ [][NextPij]_vars

---------------------------------------------------------------------------
(* A caller of the search kernels                                          *)

InitSearch ==
    /\ N \in 1 .. MaxNSearch
    /\ NDIMS = 0 /\ PROJDIM = 0
    /\ sigmas \in [0 .. N - 1 -> SigmaStart]
    /\ lower_bound = Vec(N, LowerStart)
    /\ upper_bound = Vec(N, UpperStart)
    /\ perplexity = Vec(N, Zero)
    /\ pij = Vec(N * N, Zero)
    /\ target \in TargetVals
    /\ oob = {}
    /\ iter = 0
    /\ points = Unused /\ points0 = Unused
    /\ ys = Unused /\ yt_1 = Unused /\ momentum = Unused /\ forces = Unused
    /\ qij = Unused /\ dist = Unused /\ eta = Zero /\ loss = "finite"
    /\ pc = "search"

\* pc in the search: "search" before the first call, then the last one made
SearchPcs ==
    {"search", "perplexity_search", "thrust_search_perplexity",
     "upper_lower_assign"}

SearchFrame ==
    UNCHANGED <<N, NDIMS, PROJDIM, points, points0, ys, yt_1, momentum,
                forces, qij, dist, eta, loss, target>>

\* perplexity_search<<<NBLOCKS, BLOCKSIZE>>>(sigmas, lower_bound, upper_bound,
\*                                           perplexity, pij, target, N)
LaunchPerplexitySearch ==
    /\ pc \in SearchPcs
    /\ iter < MaxSteps
    /\ \E P \in SymMatrices(N, PVals) :
         LET r == perplexity_search(sigmas, lower_bound, upper_bound,
                                    perplexity, P, target, N)
         IN  /\ pij' = P
             /\ perplexity' = r.perplexity
             /\ upper_bound' = r.upper_bound
             /\ lower_bound' = r.lower_bound
             /\ sigmas' = r.sigmas
             /\ oob' = oob \cup r.oob
    /\ iter' = iter + 1
    /\ pc' = "perplexity_search"
    /\ SearchFrame

\* thrust_search_perplexity(handle, sigmas, lower_bound, upper_bound,
\*                          perplexity, pij, target, N)
CallThrustSearchPerplexity ==
    /\ pc \in SearchPcs
    /\ iter < MaxSteps
    /\ \E P \in SymMatrices(N, PVals) :
         LET r == thrust_search_perplexity(sigmas, lower_bound, upper_bound,
                                           P, target, N)
         IN  /\ pij' = P
             /\ perplexity' = r.perplexity
             /\ upper_bound' = r.upper_bound
             /\ lower_bound' = r.lower_bound
             /\ sigmas' = r.sigmas
             /\ oob' = oob \cup r.oob
    /\ iter' = iter + 1
    /\ pc' = "thrust_search_perplexity"
    /\ SearchFrame

\* upper_lower_assign<<<NBLOCKS, BLOCKSIZE>>>(sigmas, lower_bound, upper_bound,
\*                                            perplexity, target, N)
\* on a perplexity vector of the caller's
LaunchUpperLowerAssign ==
    /\ pc \in SearchPcs
    /\ iter < MaxSteps
    /\ \E perp \in [0 .. N - 1 -> PerpVals] :
         LET r == upper_lower_assign(sigmas, lower_bound, upper_bound,
                                     perp, target, N)
         IN  /\ perplexity' = perp
             /\ upper_bound' = r.upper_bound
             /\ lower_bound' = r.lower_bound
             /\ sigmas' = r.sigmas
             /\ oob' = oob \cup r.oob
    /\ pij' = pij
    /\ iter' = iter + 1
    /\ pc' = "upper_lower_assign"
    /\ SearchFrame

NextSearch ==
    \/ LaunchPerplexitySearch
    \/ CallThrustSearchPerplexity
    \/ LaunchUpperLowerAssign

SpecSearch == InitSearch /\ [][NextSearch]_vars

\* a caller of upper_lower_assign alone, on one target
InitBisect ==
    /\ InitSearch
    /\ target = Rat(3, 2)
    /\ \A i \in 0 .. N - 1 : sigmas[i] # One

SpecBisect == InitBisect /\ [][LaunchUpperLowerAssign]_vars

---------------------------------------------------------------------------
(* tsne                                                                    *)

\* Math::max_norm(vec): every entry divided by the largest absolute value
max_norm(v) ==
    LET fabs == [k \in DOMAIN v |-> IF Sgn(v[k]) < 0 THEN FNeg(v[k]) ELSE v[k]]
        max_val == CHOOSE m \in {Zero} \cup {fabs[k] : k \in DOMAIN v} :
                     \A k \in DOMAIN v : ~FLt(m, fabs[k])
    IN  [k \in DOMAIN v |-> FDiv(v[k], max_val)]

\* float momentum_weight = 0.8f
momentum_weight == Rat(4, 5)

\* tsne(handle, points, N, NDIMS, PROJDIM) is entered
InitTsne ==
    /\ N \in TsneSizes
    /\ NDIMS = 1
    /\ PROJDIM = 1
    /\ points \in [0 .. N * NDIMS - 1 -> TsnePointVals]
    /\ points0 = points
    /\ sigmas = Unused /\ pij = Unused
    /\ ys = Unused /\ yt_1 = Unused /\ momentum = Unused /\ forces = Unused
    /\ qij = Unused /\ dist = Unused /\ eta = Zero /\ loss = "finite"
    /\ lower_bound = Unused /\ upper_bound = Unused /\ perplexity = Unused
    /\ target = Zero /\ oob = {} /\ iter = 0
    /\ pc = "max_norm"

TsneConst == UNCHANGED <<N, NDIMS, PROJDIM, points0, lower_bound, upper_bound,
                         perplexity, target, oob>>

\* line 283
TsneMaxNorm ==
    /\ pc = "max_norm"
    /\ points' = max_norm(points)
    /\ pc' = "sigmas"
    /\ TsneConst
    /\ UNCHANGED <<sigmas, pij, ys, yt_1, momentum, forces, qij, dist, eta,
                   loss, iter>>

\* line 293
TsneSigmas ==
    /\ pc = "sigmas"
    /\ sigmas' \in [0 .. N - 1 -> SigmaRange]
    /\ pc' = "compute_pij"
    /\ TsneConst
    /\ UNCHANGED <<points, pij, ys, yt_1, momentum, forces, qij, dist, eta,
                   loss, iter>>

\* line 321 with compute_pij squaring the points buffer instead of sigma
TsneComputePijSquaresPoints ==
    /\ pc = "compute_pij"
    /\ points' = square(points)
    /\ pij' = compute_pij(points', sigmas, N, NDIMS)
    /\ pc' = "alloc"
    /\ TsneConst
    /\ UNCHANGED <<sigmas, ys, yt_1, momentum, forces, qij, dist, eta, loss,
                   iter>>

\* line 321
TsneComputePij ==
    /\ pc = "compute_pij"
    /\ pij' = compute_pij(points, sigmas, N, NDIMS)
    /\ pc' = "alloc"
    /\ TsneConst
    /\ UNCHANGED <<points, sigmas, ys, yt_1, momentum, forces, qij, dist, eta,
                   loss, iter>>

\* lines 326-339
TsneAlloc ==
    /\ pc = "alloc"
    /\ forces' = Vec(N * PROJDIM, Zero)
    /\ ys' \in [0 .. N * PROJDIM - 1 -> RandomVals]
    /\ yt_1' = Vec(N * PROJDIM, Zero)
    /\ momentum' = Vec(N * PROJDIM, Zero)
    /\ qij' = Vec(N * N, Zero)
    /\ dist' = Vec(N * N, Zero)
    /\ eta' = One
    /\ loss' = "finite"
    /\ iter' = 0
    /\ pc' = "loop"
    /\ TsneConst
    /\ UNCHANGED <<points, sigmas, pij>>

\* the loop body with the snapshot of line 371 taken before the momentum
TsneIterateSnapshotFirst ==
    /\ pc = "loop"
    /\ iter < MaxIters
    /\ compute_gradients
    /\ yt_1' = ys
    /\ LET m1 == [k \in DOMAIN ys |-> FSub(ys[k], yt_1'[k])]
       IN  momentum' = [k \in DOMAIN ys |-> FMul(m1[k], momentum_weight)]
    /\ LET y1 == [k \in DOMAIN ys |-> FAdd(ys[k], forces'[k])]
       IN  ys' = [k \in DOMAIN ys |-> FAdd(y1[k], momentum'[k])]
    /\ iter' = iter + 1
    /\ pc' = "loop"
    /\ TsneConst
    /\ UNCHANGED <<points, sigmas, pij, eta>>

\* one pass through the body of the loop, lines 365-375
TsneIterate ==
    /\ pc = "loop"
    /\ iter < MaxIters
    /\ compute_gradients
    /\ LET m1 == [k \in DOMAIN ys |-> FSub(ys[k], yt_1[k])]
       IN  momentum' = [k \in DOMAIN ys |-> FMul(m1[k], momentum_weight)]
    /\ yt_1' = ys
    /\ LET y1 == [k \in DOMAIN ys |-> FAdd(ys[k], forces'[k])]
       IN  ys' = [k \in DOMAIN ys |-> FAdd(y1[k], momentum'[k])]
    /\ iter' = iter + 1
    /\ pc' = "loop"
    /\ TsneConst
    /\ UNCHANGED <<points, sigmas, pij, eta>>

\* the loop ends (at MaxIters passes here, 5000 in the program); return ys
TsneReturn ==
    /\ pc = "loop"
    /\ iter = MaxIters
    /\ pc' = "ret"
    /\ TsneConst
    /\ UNCHANGED <<points, sigmas, pij, ys, yt_1, momentum, forces, qij, dist,
                   eta, loss, iter>>

Init == InitTsne

Next ==
    \/ TsneMaxNorm
    \/ TsneSigmas
    \/ TsneComputePij
    \/ TsneAlloc
    \/ TsneIterate
    \/ TsneReturn

Spec == Init /\ [][Next]_vars

---------------------------------------------------------------------------
(* The claims                                                              *)

RowIdx(n) == 0 .. n - 1

\* 4 * e * (Y (.) (C x 1) - C x Y), entry by entry
ClaimedForces(Y, C, n, p, e) ==
    [x \in 0 .. n * p - 1 |->
        LET i == x % n
            d == x \div n
            rowsum == SumUpTo([j \in RowIdx(n) |-> C[i + j * n]], n)
            cy == SumUpTo([j \in RowIdx(n) |-> FMul(C[i + j * n], Y[j + d * n])], n)
        IN  FMul(FMul(Int2F(4), e), FSub(FMul(Y[x], rowsum), cy))]

\* C1: after compute_gradients the force matrix is 4*eta*(Y (.) (C x 1) - C x Y),
\* C the coefficient matrix (Pij - Qij) (.) dist that the call leaves in qij.
C1_ForcesAsClaimed ==
    pc = "ret" => forces = ClaimedForces(ys, qij, N, PROJDIM, eta)

\* C1, what the code computes: the negation, 4*eta*(C x Y - Y (.) (C x 1)).
C1_ForcesNegated ==
    pc = "ret" =>
        forces = [x \in DOMAIN forces |->
                    FNeg(ClaimedForces(ys, qij, N, PROJDIM, eta)[x])]

\* the step is one bisection step of a search kernel
IsSearchStep == iter' = iter + 1 /\ pc' \in SearchPcs

\* C2: in every bisection step, for every point i: perplexity_i < target
\* sets lower_i to sigma_i and leaves upper_i; otherwise upper_i is set to
\* sigma_i and lower_i is left; then sigma_i = (lower_i + upper_i) / 2.
C2_BisectionDirection ==
    [][IsSearchStep =>
        \A i \in RowIdx(N) :
            /\ IF FLt(perplexity'[i], target)
               THEN lower_bound'[i] = sigmas[i] /\ upper_bound'[i] = upper_bound[i]
               ELSE upper_bound'[i] = sigmas[i] /\ lower_bound'[i] = lower_bound[i]
            /\ sigmas'[i] =
                 FDiv(FAdd(lower_bound'[i], upper_bound'[i]), Int2F(2))]_vars

\* C3 as stated: the caller's points buffer always holds what it held at entry.
C3_PointsReadOnly == points = points0

\* C3 amended: the buffer is written only by the max-norm preprocessing at
\* the start of tsne; compute_pij, the allocation and every pass through the
\* loop leave it as the preprocessing left it.
C3_PointsWrittenOnlyByMaxNorm ==
    [][pc # "max_norm" => points' = points]_vars

C3_Witness == pc = "ret" /\ iter = MaxIters /\ points # points0

Symmetric(M, n) ==
    \A i \in RowIdx(n) : \A j \in RowIdx(n) : FEq(M[i + j * n], M[j + i * n])

\* C4: for N >= 2 and positive sigmas the matrix returned by compute_pij is
\* symmetric, and so is Qij = dist / Z in the call of compute_gradients.
C4_Symmetric ==
    (N >= 2 /\ \A i \in RowIdx(N) : FLt(Zero, sigmas[i])) =>
        /\ pc \in {"call", "ret"} => Symmetric(pij, N)
        /\ pc = "ret" => Symmetric(GradQ(dist), N)

ZeroDiagonal(M, n) == \A i \in RowIdx(n) : FEq(M[i + i * n], Zero)

\* C5: the diagonal of the matrix returned by compute_pij is exactly 0, and
\* so is the diagonal of Qij = dist / Z in the call of compute_gradients.
C5_ZeroDiagonal ==
    /\ pc \in {"call", "ret"} => ZeroDiagonal(pij, N)
    /\ pc = "ret" => ZeroDiagonal(GradQ(dist), N)

\* C6: a pass through the loop computes the forces from the embedding Y it
\* starts with, sets momentum to momentum_weight * (Y - Yt-1) with the old
\* Yt-1, sets Yt-1 to Y, and Y to Y + forces + momentum; Pij is not changed.
C6_IterationOrder ==
    [][(pc = "loop" /\ iter' = iter + 1) =>
        /\ forces' = GradForces(GradC(pij, GradQ(GradDist(ys, N, PROJDIM)),
                                      GradDist(ys, N, PROJDIM)),
                                ys, forces, N, PROJDIM, eta)
        /\ \A k \in DOMAIN ys :
            /\ momentum'[k] = FMul(momentum_weight, FSub(ys[k], yt_1[k]))
            /\ yt_1'[k] = ys[k]
            /\ ys'[k] = FAdd(FAdd(ys[k], forces'[k]), momentum'[k])
        /\ pij' = pij]_vars

C6_Witness ==
    /\ pc = "loop"
    /\ iter = MaxIters
    /\ \E k \in DOMAIN momentum : IsFin(momentum[k]) /\ momentum[k] # Zero
    /\ \E k \in DOMAIN yt_1 : IsFin(yt_1[k]) /\ yt_1[k] # ys[k]

\* C7: when the normaliser Z is 0 the division is guarded: no entry of Qij
\* or of the forces, nor the loss, is the result of a division by zero.
C7_ZeroNormalizerGuarded ==
    (pc = "ret" /\ GradZ(dist) = Zero) =>
        /\ \A k \in DOMAIN dist : IsFin(GradQ(dist)[k])
        /\ \A k \in DOMAIN forces : IsFin(forces[k])
        /\ loss = "finite"

\* the perplexity of point i with every NaN entropy term counted as 0
GuardedPerplexity(P, i, n) ==
    LET term == [j \in RowIdx(n) |->
                   LET v == FMul(P[i + j * n], log2(P[i + j * n]))
                   IN  IF j = i \/ IsNaN(v) THEN Zero ELSE v]
    IN  pow2(FNeg(SumUpTo(term, n)))

\* C8: in both perplexity computations a NaN entropy term counts as 0, so
\* the perplexity of a point is never NaN because of such a term.
C8_NaNTermCountsAsZero ==
    pc \in {"perplexity_search", "thrust_search_perplexity"} =>
        \A i \in RowIdx(N) :
            /\ ~IsNaN(perplexity[i])
            /\ perplexity[i] = GuardedPerplexity(pij, i, N)

\* C9: every thread past the index guard has TID in 0 .. N-1, so the
\* kernels access their buffers at indices below N only.
C9_ThreadsInRange ==
    pc \in SearchPcs \ {"search"} =>
        /\ PastGuard(N) \subseteq RowIdx(N)
        /\ oob = {}

BisectPre(sig, lo, up, i) == FLe(lo[i], sig[i]) /\ FLe(sig[i], up[i])

===========================================================================
